---- MODULE Spec2Model ----
(***************************************************************************)
(* Model of gomuks' config package (config/config.go): the Config          *)
(* aggregate, its per-section load/save, the lifecycle operations Clear,   *)
(* ClearData, CreateCacheDirs, DeleteSession, and the file tree they act   *)
(* on.                                                                     *)
(*                                                                         *)
(* Strings whose content is opaque to the package (tokens, identifiers)    *)
(* are numbers: 0 is the empty string "", k > 0 the k-th non-empty value.  *)
(* Paths are sequences of path components.                                 *)
(***************************************************************************)
EXTENDS Integers, Sequences, FiniteSets, TLC

VARIABLES config, fs, lastOp, result, roots, phase, authAtClear, dsRun, calls

vars == <<config, fs, lastOp, result, roots, phase, authAtClear, dsRun, calls>>

\* ------------------------------------------------------------------ bounds

\* Distinct non-empty values of each opaque string (sync token, filter id).
NumTokens == 1
\* Distinct push rulesets the server can hand over.
NumRuleSets == 1
\* Rooms the room cache can hold.
NumRooms == 1
\* Preference toggles the application flips (the first ones of PrefFields).
NumPrefs == 1
\* Calls made in one behaviour (operations, application writes, restarts).
MaxCalls == 3

TokenVals == 0..NumTokens
RuleSetVals == 1..NumRuleSets
RoomIDs == 1..NumRooms

\* ------------------------------------------------------------------- paths

Join(dir, name) == Append(dir, name)

IsPrefix(p, q) == Len(p) <= Len(q) /\ SubSeq(q, 1, Len(p)) = p

Prefixes(p) == {SubSeq(p, 1, n) : n \in 1..Len(p)}

Parent(p) == SubSeq(p, 1, Len(p) - 1)

\* strings.HasSuffix(file, ".yaml") over the file names the package uses
HasSuffixYaml(file) ==
    file \in {"config.yaml", "preferences.yaml", "auth-cache.yaml",
              "default.yaml", "custom.yaml"}

\* --------------------------------------------------------------- file tree
\* fs.dirs: the directories that exist (the root <<>> always does);
\* fs.files: the regular files, path -> content.

NoFiles == [p \in {} |-> 0]

IsDir(f, p) == p = <<>> \/ p \in f.dirs

IsFile(f, p) == p \in DOMAIN f.files

\* os.MkdirAll: fails when a component of the path is a regular file
MkdirAll(f, p) ==
    IF \E q \in Prefixes(p) : IsFile(f, q)
    THEN [ok |-> FALSE, fs |-> f]
    ELSE [ok |-> TRUE, fs |-> [f EXCEPT !.dirs = @ \cup Prefixes(p)]]

\* os.RemoveAll: the path and everything below it
RemoveAll(f, p) ==
    [dirs  |-> {d \in f.dirs : ~IsPrefix(p, d)},
     files |-> [q \in {x \in DOMAIN f.files : ~IsPrefix(p, x)} |-> f.files[q]]]

\* os.Remove: a file, or an empty directory; anything else is an error,
\* which the callers ignore
Remove(f, p) ==
    IF IsFile(f, p)
    THEN [f EXCEPT !.files = [q \in DOMAIN f.files \ {p} |-> f.files[q]]]
    ELSE IF p \in f.dirs
            /\ ~\E q \in (f.dirs \cup DOMAIN f.files) : q # p /\ IsPrefix(p, q)
    THEN [f EXCEPT !.dirs = @ \ {p}]
    ELSE f

\* ioutil.ReadFile
ReadFile(f, p) ==
    IF IsFile(f, p) THEN [err |-> "", data |-> f.files[p]]
    ELSE IF p \in f.dirs \/ \E q \in Prefixes(p) : IsFile(f, q)
    THEN [err |-> "EIO", data |-> [kind |-> "none"]]
    ELSE [err |-> "ENOENT", data |-> [kind |-> "none"]]

\* ioutil.WriteFile: whole-file replace; the parent directory must exist
WriteFile(f, p, data) ==
    IF IsDir(f, Parent(p)) /\ p \notin f.dirs
    THEN [ok |-> TRUE,
          fs |-> [f EXCEPT !.files =
                     [q \in DOMAIN f.files \cup {p} |->
                         IF q = p THEN data ELSE f.files[q]]]]
    ELSE [ok |-> FALSE, fs |-> f]

\* ------------------------------------------------------------ the aggregate

PrefFields ==
    <<"HideUserList", "HideRoomList", "BareMessageView", "DisableImages",
      "DisableTypingNotifs", "DisableEmojis", "DisableMarkdown", "DisableHTML",
      "DisableDownloads", "DisableNotifications", "DisableShowURLs">>

\* yaml tag -> field, per struct; a field tagged "-" or unexported has no tag
AuthCacheTags ==
    [next_batch |-> "NextBatch", filter_id |-> "FilterID",
     initial_sync_done |-> "InitialSyncDone"]

UserPreferencesTags ==
    [hide_user_list |-> "HideUserList", hide_room_list |-> "HideRoomList",
     bare_message_view |-> "BareMessageView", disable_images |-> "DisableImages",
     disable_typing_notifs |-> "DisableTypingNotifs",
     disable_emojis |-> "DisableEmojis", disable_markdown |-> "DisableMarkdown",
     disable_html |-> "DisableHTML", disable_downloads |-> "DisableDownloads",
     disable_notifications |-> "DisableNotifications",
     disable_show_urls |-> "DisableShowURLs"]

KeyMapTags ==
    [verification_done |-> "VerificationDone",
     verification_submit |-> "VerificationSubmit",
     fuzzy_search_open |-> "FuzzySearchOpen",
     fuzzy_search_cancel |-> "FuzzySearchClose",
     fuzzy_search_next |-> "FuzzySearchNext",
     fuzzy_search_prev |-> "FuzzySearchPrev",
     fuzzy_search_choose |-> "FuzzySearchChoose",
     room_next |-> "RoomNext", room_prev |-> "RoomPrev",
     room_view_top |-> "RoomViewTop", room_view_bottom |-> "RoomViewBottom",
     room_view_scroll_up |-> "RoomViewScrollUp",
     room_view_scroll_down |-> "RoomViewScrollDown",
     message_select_cancel |-> "MessageSelectCancel",
     message_select_next |-> "MessageSelectNext",
     message_select_prev |-> "MessageSelectPrev",
     message_select_choose |-> "MessageSelectChoose",
     message_input_newline |-> "MessageInputNewline",
     message_input_clear |-> "MessageInputClear",
     message_input_send |-> "MessageInputSend",
     bare_view_open |-> "BareViewOpen"]

ConfigTags ==
    [mxid |-> "UserID", device_id |-> "DeviceID", access_token |-> "AccessToken",
     homeserver |-> "HS", room_cache_size |-> "RoomCacheSize",
     room_cache_age |-> "RoomCacheAge", notify_sound |-> "NotifySound",
     send_to_verified_only |-> "SendToVerifiedOnly", data_dir |-> "DataDir",
     cache_dir |-> "CacheDir", history_path |-> "HistoryPath",
     room_list_path |-> "RoomListPath", media_dir |-> "MediaDir",
     download_dir |-> "DownloadDir", state_dir |-> "StateDir",
     keymap |-> "Keymap"]

FieldsOf(tags) == {tags[t] : t \in DOMAIN tags}

ZeroAuthCache == [NextBatch |-> 0, FilterID |-> 0, InitialSyncDone |-> FALSE]

ZeroPreferences == [f \in FieldsOf(UserPreferencesTags) |-> FALSE]

ZeroKeyMap == [f \in FieldsOf(KeyMapTags) |-> 0]

\* the nil *rooms.RoomCache
NilRooms ==
    [isNil |-> TRUE, listPath |-> <<>>, stateDir |-> <<>>, size |-> 0, age |-> 0,
     getUserID |-> "", rooms |-> {}]

\* rooms.NewRoomCache: a new, empty cache that remembers its parameters
NewRoomCache(listPath, stateDir, size, age, getUserID) ==
    [isNil |-> FALSE, listPath |-> listPath, stateDir |-> stateDir,
     size |-> size, age |-> age, getUserID |-> getUserID, rooms |-> {}]

\* NewConfig, leaving the tunables at the zero value of their type
NewConfig_ZeroTunables(configDir, dataDir, cacheDir, downloadDir) ==
    [UserID |-> 0, DeviceID |-> 0, AccessToken |-> 0, HS |-> 0,
     RoomCacheSize |-> 0, RoomCacheAge |-> 0,
     NotifySound |-> FALSE, SendToVerifiedOnly |-> FALSE,
     Dir |-> configDir, DataDir |-> dataDir, CacheDir |-> cacheDir,
     HistoryPath |-> Join(cacheDir, "history.db"),
     RoomListPath |-> Join(cacheDir, "rooms.gob.gz"),
     MediaDir |-> Join(cacheDir, "media"),
     DownloadDir |-> downloadDir,
     StateDir |-> Join(cacheDir, "state"),
     Keymap |-> "default", KeyMap |-> ZeroKeyMap,
     Preferences |-> ZeroPreferences, AuthCache |-> ZeroAuthCache,
     Rooms |-> NilRooms, PushRules |-> 0,
     nosave |-> FALSE]

NewConfig(configDir, dataDir, cacheDir, downloadDir) ==
    [UserID |-> 0, DeviceID |-> 0, AccessToken |-> 0, HS |-> 0,
     RoomCacheSize |-> 32, RoomCacheAge |-> 1 * 60,
     NotifySound |-> TRUE, SendToVerifiedOnly |-> FALSE,
     Dir |-> configDir, DataDir |-> dataDir, CacheDir |-> cacheDir,
     HistoryPath |-> Join(cacheDir, "history.db"),
     RoomListPath |-> Join(cacheDir, "rooms.gob.gz"),
     MediaDir |-> Join(cacheDir, "media"),
     DownloadDir |-> downloadDir,
     StateDir |-> Join(cacheDir, "state"),
     Keymap |-> "default", KeyMap |-> ZeroKeyMap,
     Preferences |-> ZeroPreferences, AuthCache |-> ZeroAuthCache,
     Rooms |-> NilRooms, PushRules |-> 0,
     nosave |-> FALSE]

\* ------------------------------------------------------------ format codec
\* A file's content is a record: kind "yaml" (kv: the keys of the document
\* and their values; bad: the keys whose value has the wrong type for the
\* field), kind "json" (val: the ruleset, 0 for the literal null; bad: a
\* member of the wrong type), kind "gob" (the room cache's own files), kind
\* "raw" (files of other subsystems) or kind "garbage" (bytes that do not
\* parse).

Garbage == [kind |-> "garbage"]

\* yaml.Marshal of a struct: every tagged field, zero values included
yamlMarshal(source, tags) ==
    [kind |-> "yaml", kv |-> [t \in DOMAIN tags |-> source[tags[t]]], bad |-> {}]

\* yamlUnmarshal, but bytes that do not parse count as an empty document
yamlUnmarshal_IgnoresGarbage(data, target, tags) ==
    IF data.kind # "yaml" THEN [ok |-> TRUE, val |-> target]
    ELSE [ok  |-> data.bad = {},
          val |-> [f \in DOMAIN target |->
                     IF \E t \in DOMAIN data.kv \cap DOMAIN tags : tags[t] = f
                     THEN data.kv[CHOOSE t \in DOMAIN data.kv \cap DOMAIN tags :
                                      tags[t] = f]
                     ELSE target[f]]]

\* yaml.Unmarshal into a struct: a document that does not parse changes
\* nothing; otherwise each key of the document that names a field sets it,
\* the other fields keep their value, and a key of the wrong type is
\* skipped and reported once the whole document has been decoded
yamlUnmarshal(data, target, tags) ==
    IF data.kind # "yaml" THEN [ok |-> FALSE, val |-> target]
    ELSE [ok  |-> data.bad = {},
          val |-> [f \in DOMAIN target |->
                     IF \E t \in DOMAIN data.kv \cap DOMAIN tags : tags[t] = f
                     THEN data.kv[CHOOSE t \in DOMAIN data.kv \cap DOMAIN tags :
                                      tags[t] = f]
                     ELSE target[f]]]

\* json.Marshal of **PushRuleset
jsonMarshal(source) == [kind |-> "json", val |-> source, bad |-> FALSE]

\* json.Unmarshal into **PushRuleset: input is validated before anything is
\* stored; null stores nil; a member of the wrong type is skipped and
\* reported after the rest has been stored
jsonUnmarshal(data, target) ==
    IF data.kind # "json" THEN [ok |-> FALSE, val |-> target]
    ELSE [ok |-> ~data.bad, val |-> data.val]

\* ----------------------------------------------------------- section store
\* An operation maps a world [c: the aggregate, fs: the file tree, err: the
\* panic in flight, "" for none] to a world.  A world with a panic in
\* flight passes through every later step of the operation untouched.

NoErr == ""

Tags(target) ==
    CASE target = "config" -> ConfigTags
      [] target = "Preferences" -> UserPreferencesTags
      [] target = "AuthCache" -> AuthCacheTags
      [] target = "KeyMap" -> KeyMapTags
      [] OTHER -> [t \in {} |-> ""]

Deref(c, target) == IF target = "config" THEN c ELSE c[target]

Store(c, target, v) == IF target = "config" THEN v ELSE [c EXCEPT ![target] = v]

Unmarshal(file, data, c, target) ==
    IF HasSuffixYaml(file)
    THEN yamlUnmarshal(data, Deref(c, target), Tags(target))
    ELSE jsonUnmarshal(data, Deref(c, target))

\* Marshal, with the keyed-document codec for every file name
Marshal_AlwaysYaml(file, c, source) == yamlMarshal(Deref(c, source), Tags(source))

Marshal(file, c, source) ==
    IF HasSuffixYaml(file)
    THEN yamlMarshal(Deref(c, source), Tags(source))
    ELSE jsonMarshal(Deref(c, source))

\* load, but an absent file resets a section to its zero value
load_ResetsOnMissing(w, name, dir, file, target) ==
    IF w.err # NoErr THEN w
    ELSE LET mk == MkdirAll(w.fs, dir) IN
      IF ~mk.ok THEN [w EXCEPT !.err = "DirectoryCreateFailed"]
      ELSE LET rd == ReadFile(mk.fs, Join(dir, file)) IN
        IF rd.err = "ENOENT"
        THEN [w EXCEPT !.fs = mk.fs,
                       !.c = CASE target = "AuthCache" -> [@ EXCEPT !.AuthCache = ZeroAuthCache]
                               [] target = "Preferences" -> [@ EXCEPT !.Preferences = ZeroPreferences]
                               [] target = "KeyMap" -> [@ EXCEPT !.KeyMap = ZeroKeyMap]
                               [] target = "PushRules" -> [@ EXCEPT !.PushRules = 0]
                               [] OTHER -> @]
        ELSE IF rd.err # "" THEN [w EXCEPT !.fs = mk.fs, !.err = "FileReadFailed"]
        ELSE LET um == Unmarshal(file, rd.data, w.c, target) IN
          [c   |-> Store(w.c, target, um.val),
           fs  |-> mk.fs,
           err |-> IF um.ok THEN NoErr ELSE "MalformedData"]

load(w, name, dir, file, target) ==
    IF w.err # NoErr THEN w
    ELSE LET mk == MkdirAll(w.fs, dir) IN
      IF ~mk.ok THEN [w EXCEPT !.err = "DirectoryCreateFailed"]
      ELSE LET rd == ReadFile(mk.fs, Join(dir, file)) IN
        IF rd.err = "ENOENT" THEN [w EXCEPT !.fs = mk.fs]
        ELSE IF rd.err # "" THEN [w EXCEPT !.fs = mk.fs, !.err = "FileReadFailed"]
        ELSE LET um == Unmarshal(file, rd.data, w.c, target) IN
          [c   |-> Store(w.c, target, um.val),
           fs  |-> mk.fs,
           err |-> IF um.ok THEN NoErr ELSE "MalformedData"]

\* save, without the check of the suppression flag
save_NoSuppress(w, name, dir, file, source) ==
    IF w.err # NoErr THEN w
    ELSE LET mk == MkdirAll(w.fs, dir) IN
      IF ~mk.ok THEN [w EXCEPT !.err = "DirectoryCreateFailed"]
      ELSE LET wr == WriteFile(mk.fs, Join(dir, file), Marshal(file, w.c, source)) IN
        IF ~wr.ok THEN [w EXCEPT !.fs = mk.fs, !.err = "FileWriteFailed"]
        ELSE [w EXCEPT !.fs = wr.fs]

\* save, returning normally when the directory or the file cannot be written
save_SwallowsErrors(w, name, dir, file, source) ==
    IF w.err # NoErr THEN w
    ELSE IF w.c.nosave THEN w
    ELSE LET mk == MkdirAll(w.fs, dir) IN
      IF ~mk.ok THEN w
      ELSE LET wr == WriteFile(mk.fs, Join(dir, file), Marshal(file, w.c, source)) IN
        IF ~wr.ok THEN [w EXCEPT !.fs = mk.fs]
        ELSE [w EXCEPT !.fs = wr.fs]

save(w, name, dir, file, source) ==
    IF w.err # NoErr THEN w
    ELSE IF w.c.nosave THEN w
    ELSE LET mk == MkdirAll(w.fs, dir) IN
      IF ~mk.ok THEN [w EXCEPT !.err = "DirectoryCreateFailed"]
      ELSE LET wr == WriteFile(mk.fs, Join(dir, file), Marshal(file, w.c, source)) IN
        IF ~wr.ok THEN [w EXCEPT !.fs = mk.fs, !.err = "FileWriteFailed"]
        ELSE [w EXCEPT !.fs = wr.fs]

\* ------------------------------------------------- room-cache collaborator

RoomFile(r) == "room" \o ToString(r)

RoomList(rooms) == [kind |-> "gob", rooms |-> rooms]

\* RoomCache.LoadList: an absent list is an empty list
RoomsLoadList(w) ==
    IF w.err # NoErr THEN w
    ELSE IF w.c.Rooms.isNil THEN [w EXCEPT !.err = "NilDereference"]
    ELSE LET rd == ReadFile(w.fs, w.c.Rooms.listPath) IN
      IF rd.err = "ENOENT" THEN w
      ELSE IF rd.err = "" /\ rd.data.kind = "gob"
      THEN [w EXCEPT !.c.Rooms.rooms = rd.data.rooms]
      ELSE [w EXCEPT !.err = "RoomListLoadFailed"]

\* RoomCache.SaveList: writes the list file of the cache
RoomsSaveList(w) ==
    IF w.err # NoErr THEN w
    ELSE IF w.c.Rooms.isNil THEN [w EXCEPT !.err = "NilDereference"]
    ELSE LET wr == WriteFile(w.fs, w.c.Rooms.listPath, RoomList(w.c.Rooms.rooms)) IN
      IF wr.ok THEN [w EXCEPT !.fs = wr.fs]
      ELSE [w EXCEPT !.err = "RoomListSaveFailed"]

\* RoomCache.SaveLoadedRooms: one state file per loaded room, each best-effort
RoomsSaveLoadedRooms(w) ==
    IF w.err # NoErr THEN w
    ELSE IF w.c.Rooms.isNil THEN [w EXCEPT !.err = "NilDereference"]
    ELSE LET sd == w.c.Rooms.stateDir
             new == {Join(sd, RoomFile(r)) : r \in w.c.Rooms.rooms}
             ok == {p \in new : IsDir(w.fs, sd) /\ p \notin w.fs.dirs}
         IN [w EXCEPT !.fs.files =
                [q \in DOMAIN w.fs.files \cup ok |->
                    IF q \in ok THEN [kind |-> "gob", rooms |-> {}]
                    ELSE w.fs.files[q]]]

\* ----------------------------------------------------- lifecycle operations

\* Clear, without setting the suppression flag
Clear_NoFlag(w) ==
    IF w.err # NoErr THEN w
    ELSE LET f1 == Remove(w.fs, w.c.HistoryPath)
             f2 == Remove(f1, w.c.RoomListPath)
             f3 == RemoveAll(f2, w.c.StateDir)
             f4 == RemoveAll(f3, w.c.MediaDir)
             f5 == RemoveAll(f4, w.c.CacheDir)
         IN [w EXCEPT !.fs = f5]

\* Clear, removing the data directory as well
Clear_RemovesData(w) ==
    IF w.err # NoErr THEN w
    ELSE LET f1 == Remove(w.fs, w.c.HistoryPath)
             f2 == Remove(f1, w.c.RoomListPath)
             f3 == RemoveAll(f2, w.c.StateDir)
             f4 == RemoveAll(f3, w.c.MediaDir)
             f5 == RemoveAll(f4, w.c.CacheDir)
             f6 == RemoveAll(f5, w.c.DataDir)
         IN [w EXCEPT !.fs = f6, !.c.nosave = TRUE]

Clear(w) ==
    IF w.err # NoErr THEN w
    ELSE LET f1 == Remove(w.fs, w.c.HistoryPath)
             f2 == Remove(f1, w.c.RoomListPath)
             f3 == RemoveAll(f2, w.c.StateDir)
             f4 == RemoveAll(f3, w.c.MediaDir)
             f5 == RemoveAll(f4, w.c.CacheDir)
         IN [w EXCEPT !.fs = f5, !.c.nosave = TRUE]

\* ClearData, setting the suppression flag as Clear does
ClearData_Suppresses(w) ==
    IF w.err # NoErr THEN w
    ELSE [w EXCEPT !.fs = RemoveAll(w.fs, w.c.DataDir), !.c.nosave = TRUE]

ClearData(w) ==
    IF w.err # NoErr THEN w
    ELSE [w EXCEPT !.fs = RemoveAll(w.fs, w.c.DataDir)]

\* CreateCacheDirs, deriving the state and media directories from the cache
\* directory again before creating them
CreateCacheDirs_Rederives(w) ==
    IF w.err # NoErr THEN w
    ELSE LET c == [w.c EXCEPT !.StateDir = Join(w.c.CacheDir, "state"),
                              !.MediaDir = Join(w.c.CacheDir, "media")]
             f1 == MkdirAll(w.fs, c.CacheDir).fs
             f2 == MkdirAll(f1, c.DataDir).fs
             f3 == MkdirAll(f2, c.StateDir).fs
             f4 == MkdirAll(f3, c.MediaDir).fs
         IN [w EXCEPT !.fs = f4, !.c = c]

CreateCacheDirs(w) ==
    IF w.err # NoErr THEN w
    ELSE LET f1 == MkdirAll(w.fs, w.c.CacheDir).fs
             f2 == MkdirAll(f1, w.c.DataDir).fs
             f3 == MkdirAll(f2, w.c.StateDir).fs
             f4 == MkdirAll(f3, w.c.MediaDir).fs
         IN [w EXCEPT !.fs = f4]

\* DeleteSession, without the re-enabling of saves
DeleteSession_StaysSuppressed(w) ==
    IF w.err # NoErr THEN w
    ELSE LET c1 == [w.c EXCEPT !.AuthCache.NextBatch = 0,
                               !.AuthCache.InitialSyncDone = FALSE,
                               !.AccessToken = 0,
                               !.DeviceID = 0]
             c2 == [c1 EXCEPT !.Rooms =
                       NewRoomCache(c1.RoomListPath, c1.StateDir, c1.RoomCacheSize,
                                    c1.RoomCacheAge, "config.GetUserID"),
                              !.PushRules = 0]
             w1 == Clear(ClearData([w EXCEPT !.c = c2]))
         IN CreateCacheDirs(w1)

\* DeleteSession, with the device id taking the old access token instead of
\* the empty string
DeleteSession_ShiftsToken(w) ==
    IF w.err # NoErr THEN w
    ELSE LET c1 == [w.c EXCEPT !.AuthCache.NextBatch = 0,
                               !.AuthCache.InitialSyncDone = FALSE,
                               !.DeviceID = w.c.AccessToken,
                               !.AccessToken = 0]
             c2 == [c1 EXCEPT !.Rooms =
                       NewRoomCache(c1.RoomListPath, c1.StateDir, c1.RoomCacheSize,
                                    c1.RoomCacheAge, "config.GetUserID"),
                              !.PushRules = 0]
             w1 == Clear(ClearData([w EXCEPT !.c = c2]))
             w2 == [w1 EXCEPT !.c.nosave = FALSE]
         IN CreateCacheDirs(w2)

\* DeleteSession, saving the main settings once saving is enabled again
DeleteSession_SavesSettings(w) ==
    IF w.err # NoErr THEN w
    ELSE LET c1 == [w.c EXCEPT !.AuthCache.NextBatch = 0,
                               !.AuthCache.InitialSyncDone = FALSE,
                               !.AccessToken = 0,
                               !.DeviceID = 0]
             c2 == [c1 EXCEPT !.Rooms =
                       NewRoomCache(c1.RoomListPath, c1.StateDir, c1.RoomCacheSize,
                                    c1.RoomCacheAge, "config.GetUserID"),
                              !.PushRules = 0]
             w1 == Clear(ClearData([w EXCEPT !.c = c2]))
             w2 == [w1 EXCEPT !.c.nosave = FALSE]
             w3 == CreateCacheDirs(w2)
         IN save(w3, "config", w3.c.Dir, "config.yaml", "config")

DeleteSession(w) ==
    IF w.err # NoErr THEN w
    ELSE LET c1 == [w.c EXCEPT !.AuthCache.NextBatch = 0,
                               !.AuthCache.InitialSyncDone = FALSE,
                               !.AccessToken = 0,
                               !.DeviceID = 0]
             c2 == [c1 EXCEPT !.Rooms =
                       NewRoomCache(c1.RoomListPath, c1.StateDir, c1.RoomCacheSize,
                                    c1.RoomCacheAge, "config.GetUserID"),
                              !.PushRules = 0]
             w1 == Clear(ClearData([w EXCEPT !.c = c2]))
             w2 == [w1 EXCEPT !.c.nosave = FALSE]
         IN CreateCacheDirs(w2)

\* ------------------------------------------------- per-section load / save

Load(w) == CreateCacheDirs(load(w, "config", w.c.Dir, "config.yaml", "config"))

Save(w) == save(w, "config", w.c.Dir, "config.yaml", "config")

LoadPreferences(w) ==
    load(w, "user preferences", w.c.CacheDir, "preferences.yaml", "Preferences")

SavePreferences(w) ==
    save(w, "user preferences", w.c.CacheDir, "preferences.yaml", "Preferences")

LoadAuthCache(w) == load(w, "auth cache", w.c.CacheDir, "auth-cache.yaml", "AuthCache")

SaveAuthCache(w) == save(w, "auth cache", w.c.CacheDir, "auth-cache.yaml", "AuthCache")

LoadPushRules(w) == load(w, "push rules", w.c.CacheDir, "pushrules.json", "PushRules")

\* SavePushRules, without the return on an absent ruleset
SavePushRules_NoNilCheck(w) ==
    save(w, "push rules", w.c.CacheDir, "pushrules.json", "PushRules")

SavePushRules(w) ==
    IF w.c.PushRules = 0 THEN w
    ELSE save(w, "push rules", w.c.CacheDir, "pushrules.json", "PushRules")

KeymapFile(keymap) == keymap \o ".yaml"

LoadKeymap(w) ==
    load(w, "keymap", Join(w.c.Dir, "keymaps"), KeymapFile(w.c.Keymap), "KeyMap")

\* the assignment to config.Rooms in LoadAll, skipped when Load panicked
ReplaceRooms(w) ==
    IF w.err # NoErr THEN w
    ELSE [w EXCEPT !.c.Rooms =
             NewRoomCache(w.c.RoomListPath, w.c.StateDir, w.c.RoomCacheSize,
                          w.c.RoomCacheAge, "config.GetUserID")]

\* LoadAll, building the room cache before the main settings are loaded
LoadAll_RoomsFirst(w) ==
    RoomsLoadList(LoadPreferences(LoadPushRules(LoadAuthCache(Load(ReplaceRooms(w))))))

LoadAll(w) ==
    RoomsLoadList(LoadPreferences(LoadPushRules(LoadAuthCache(ReplaceRooms(Load(w))))))

\* SaveAll, writing the preferences before the other sections
SaveAll_PreferencesFirst(w) ==
    RoomsSaveLoadedRooms(RoomsSaveList(
        SavePushRules(SaveAuthCache(Save(SavePreferences(w))))))

SaveAll(w) ==
    RoomsSaveLoadedRooms(RoomsSaveList(
        SavePreferences(SavePushRules(SaveAuthCache(Save(w))))))

\* ---------------------------------------------------- auth-cache accessors

GetUserID(w) == w.c.UserID

\* SaveFilterID, setting the field in memory without the save that follows
SaveFilterID_NoSave(w, filterID) == [w EXCEPT !.c.AuthCache.FilterID = filterID]

SaveFilterID(w, filterID) ==
    SaveAuthCache([w EXCEPT !.c.AuthCache.FilterID = filterID])

LoadFilterID(w) == w.c.AuthCache.FilterID

SaveNextBatch(w, nextBatch) ==
    SaveAuthCache([w EXCEPT !.c.AuthCache.NextBatch = nextBatch])

LoadNextBatch(w) == w.c.AuthCache.NextBatch

SaveRoom(w) == [w EXCEPT !.err = "UnsupportedOperation"]

\* LoadRoom, returning no room instead of panicking
LoadRoom_ReturnsNil(w) == w

LoadRoom(w) == [w EXCEPT !.err = "UnsupportedOperation"]

\* ------------------------------------------------------------ environment
\* The roots a process can be started with: the same config root, with the
\* data and cache roots apart from it, or with the data root equal to the
\* config root (platforms with one application-support directory) and
\* another cache root.

RootLayouts ==
    {[configDir |-> <<"cfg">>, dataDir |-> <<"data">>, cacheDir |-> <<"cache">>,
      downloadDir |-> <<"dl">>],
     [configDir |-> <<"cfg">>, dataDir |-> <<"cfg">>, cacheDir |-> <<"cache2">>,
      downloadDir |-> <<"dl">>]}

EmptyDisk == [dirs |-> {}, files |-> NoFiles]

\* a file put into the tree from outside, with its directories
Put(f, p, data) == WriteFile(MkdirAll(f, Parent(p)).fs, p, data).fs

SectionFile(c, section) ==
    CASE section = "config" -> Join(c.Dir, "config.yaml")
      [] section = "Preferences" -> Join(c.CacheDir, "preferences.yaml")
      [] section = "AuthCache" -> Join(c.CacheDir, "auth-cache.yaml")
      [] section = "PushRules" -> Join(c.CacheDir, "pushrules.json")
      [] section = "KeyMap" -> Join(Join(c.Dir, "keymaps"), KeymapFile(c.Keymap))

\* every section file and the room list hold bytes that do not parse
GarbageDisk(c) ==
    Put(Put(Put(Put(Put(Put(EmptyDisk,
        SectionFile(c, "config"), Garbage),
        SectionFile(c, "AuthCache"), Garbage),
        SectionFile(c, "Preferences"), Garbage),
        SectionFile(c, "PushRules"), Garbage),
        SectionFile(c, "KeyMap"), Garbage),
        c.RoomListPath, Garbage)

\* every section file is a well-formed document with one value of the wrong
\* type beside a good one
TypeErrorDisk(c) ==
    Put(Put(Put(Put(Put(EmptyDisk,
        SectionFile(c, "config"),
            [kind |-> "yaml", kv |-> [mxid |-> 1], bad |-> {"room_cache_size"}]),
        SectionFile(c, "AuthCache"),
            [kind |-> "yaml", kv |-> [filter_id |-> 1], bad |-> {"next_batch"}]),
        SectionFile(c, "Preferences"),
            [kind |-> "yaml", kv |-> [hide_user_list |-> TRUE],
             bad |-> {"hide_room_list"}]),
        SectionFile(c, "PushRules"), [kind |-> "json", val |-> 1, bad |-> TRUE]),
        SectionFile(c, "KeyMap"),
            [kind |-> "yaml", kv |-> [room_next |-> 1], bad |-> {"room_prev"}])

\* the tree an earlier process with roots r left behind: it loaded, logged
\* in, synced, and saved everything; the user wrote a keymap
SessionDisk(r) ==
    LET w1 == LoadAll([c |-> NewConfig(r.configDir, r.dataDir, r.cacheDir,
                                       r.downloadDir),
                       fs |-> EmptyDisk, err |-> NoErr])
        w2 == [w1 EXCEPT !.c.UserID = 1, !.c.DeviceID = 1, !.c.AccessToken = 1,
                         !.c.HS = 1, !.c.PushRules = 1,
                         !.c.Preferences[PrefFields[1]] = TRUE,
                         !.c.AuthCache = [NextBatch |-> 1, FilterID |-> 1,
                                          InitialSyncDone |-> TRUE],
                         !.c.Rooms.rooms = {1}]
        w3 == SaveAll(w2)
    IN Put(Put(Put(Put(w3.fs,
           w3.c.HistoryPath, [kind |-> "raw"]),
           Join(w3.c.DataDir, "crypto.db"), [kind |-> "raw"]),
           Join(w3.c.MediaDir, "media1"), [kind |-> "raw"]),
           SectionFile(w3.c, "KeyMap"),
               [kind |-> "yaml", kv |-> [room_next |-> 1], bad |-> {}])

\* the user wrote a config.yaml that moves the cache and download
\* directories and names nothing else
EditedDisk(c) ==
    Put(EmptyDisk, SectionFile(c, "config"),
        [kind |-> "yaml",
         kv |-> [cache_dir |-> <<"cache3">>, download_dir |-> <<"dl2">>],
         bad |-> {}])

\* the file trees a process can find when it starts with roots r
InitialDisks(r) ==
    LET c == NewConfig(r.configDir, r.dataDir, r.cacheDir, r.downloadDir) IN
    {EmptyDisk, GarbageDisk(c), TypeErrorDisk(c), EditedDisk(c), SessionDisk(r)}

NoAuth == [kind |-> "none"]

AuthCachePath(c) == Join(c.CacheDir, "auth-cache.yaml")

W == [c |-> config, fs |-> fs, err |-> NoErr]

\* One call of an operation: its effect, its outcome, and the history kept
\* for the properties.  phase: "fresh" until the caller uses a lifecycle
\* operation, then "live"; "cleared" from a Clear() on; "reset" after a
\* DeleteSession(), "reenabled" when that DeleteSession() followed a Clear().
\* authAtClear: the auth-cache file as the last Clear() found it.  dsRun:
\* the DeleteSession() calls that ended the history, up to 2.
Call(op, w, ret, ph) ==
    /\ calls < MaxCalls
    /\ calls' = calls + 1
    /\ config' = w.c
    /\ fs' = w.fs
    /\ lastOp' = op
    /\ result' = [err |-> w.err, ret |-> ret]
    /\ phase' = ph
    /\ authAtClear' = IF op = "Clear"
                      THEN IF IsFile(fs, AuthCachePath(config))
                           THEN fs.files[AuthCachePath(config)] ELSE NoAuth
                      ELSE IF ph = "cleared" THEN authAtClear ELSE NoAuth
    /\ dsRun' = IF op = "DeleteSession" THEN (IF dsRun < 2 THEN dsRun + 1 ELSE 2)
                ELSE 0
    /\ roots' = roots

Used == IF phase = "fresh" THEN "live" ELSE phase

Init ==
    /\ roots \in RootLayouts
    /\ config = NewConfig(roots.configDir, roots.dataDir, roots.cacheDir,
                          roots.downloadDir)
    /\ fs \in InitialDisks(roots)
    /\ lastOp = "NewConfig"
    /\ result = [err |-> NoErr, ret |-> -1]
    /\ phase = "fresh"
    /\ authAtClear = NoAuth
    /\ dsRun = 0
    /\ calls = 0

\* the process ends and a later one constructs its aggregate on the same
\* roots and on the file tree as it was left
Restart ==
    \E r \in {roots} :
      LET c == NewConfig(r.configDir, r.dataDir, r.cacheDir, r.downloadDir) IN
      /\ fs' = fs
      /\ config' = c
      /\ roots' = r
      /\ lastOp' = "NewConfig"
      /\ result' = [err |-> NoErr, ret |-> -1]
      /\ phase' = "fresh"
      /\ authAtClear' = NoAuth
      /\ dsRun' = 0
      /\ calls < MaxCalls
      /\ calls' = calls + 1

\* the application and the network layer writing the exported fields
Login ==
    \E u \in 1..NumTokens :
      Call("Login", [W EXCEPT !.c.UserID = u, !.c.DeviceID = u,
                              !.c.AccessToken = u, !.c.HS = u], -1, phase)

SetPushRules ==
    \E r \in RuleSetVals : Call("SetPushRules", [W EXCEPT !.c.PushRules = r], -1, phase)

SetPreference ==
    \E i \in 1..NumPrefs :
      Call("SetPreference",
           [W EXCEPT !.c.Preferences[PrefFields[i]] = ~@], -1, phase)

SetInitialSyncDone ==
    Call("SetInitialSyncDone", [W EXCEPT !.c.AuthCache.InitialSyncDone = TRUE], -1, phase)

\* the room cache learning of a room
RoomsAdd ==
    /\ ~config.Rooms.isNil
    /\ \E r \in RoomIDs : Call("RoomsAdd", [W EXCEPT !.c.Rooms.rooms = @ \cup {r}], -1, phase)

\* other subsystems writing their own files: the history database, the
\* crypto store in the data directory, a downloaded media file
AppWrite ==
    \E p \in {config.HistoryPath, Join(config.DataDir, "crypto.db"),
              Join(config.MediaDir, "media1")} :
      /\ WriteFile(fs, p, [kind |-> "raw"]).ok
      /\ Call("AppWrite", [W EXCEPT !.fs = WriteFile(fs, p, [kind |-> "raw"]).fs],
              -1, phase)

\* ---------------------------------------------------------------- actions

DoClear == Call("Clear", Clear(W), -1, "cleared")

DoClearData == Call("ClearData", ClearData(W), -1, Used)

DoCreateCacheDirs == Call("CreateCacheDirs", CreateCacheDirs(W), -1, Used)

DoDeleteSession ==
    Call("DeleteSession", DeleteSession(W), -1,
         IF phase = "cleared" THEN "reenabled" ELSE "reset")

DoLoadAll == Call("LoadAll", LoadAll(W), -1, phase)

DoLoad == Call("Load", Load(W), -1, phase)

DoSaveAll == Call("SaveAll", SaveAll(W), -1, phase)

DoSave == Call("Save", Save(W), -1, phase)

DoLoadPreferences == Call("LoadPreferences", LoadPreferences(W), -1, phase)

DoSavePreferences == Call("SavePreferences", SavePreferences(W), -1, phase)

DoLoadAuthCache == Call("LoadAuthCache", LoadAuthCache(W), -1, phase)

DoSaveAuthCache == Call("SaveAuthCache", SaveAuthCache(W), -1, phase)

DoLoadPushRules == Call("LoadPushRules", LoadPushRules(W), -1, phase)

DoSavePushRules == Call("SavePushRules", SavePushRules(W), -1, phase)

DoLoadKeymap == Call("LoadKeymap", LoadKeymap(W), -1, phase)

DoGetUserID == Call("GetUserID", W, GetUserID(W), phase)

DoSaveFilterID ==
    \E u \in TokenVals, f \in TokenVals :
      Call("SaveFilterID", SaveFilterID(W, f), -1, phase)

DoLoadFilterID ==
    \E u \in TokenVals : Call("LoadFilterID", W, LoadFilterID(W), phase)

DoSaveNextBatch ==
    \E u \in TokenVals, t \in TokenVals :
      Call("SaveNextBatch", SaveNextBatch(W, t), -1, phase)

DoLoadNextBatch ==
    \E u \in TokenVals : Call("LoadNextBatch", W, LoadNextBatch(W), phase)

DoSaveRoom == Call("SaveRoom", SaveRoom(W), -1, phase)

DoLoadRoom == Call("LoadRoom", LoadRoom(W), -1, phase)

Next ==
    \/ Restart
    \/ Login
    \/ SetPushRules
    \/ SetPreference
    \/ SetInitialSyncDone
    \/ RoomsAdd
    \/ AppWrite
    \/ DoClear
    \/ DoClearData
    \/ DoCreateCacheDirs
    \/ DoDeleteSession
    \/ DoLoadAll
    \/ DoLoad
    \/ DoSaveAll
    \/ DoSave
    \/ DoLoadPreferences
    \/ DoSavePreferences
    \/ DoLoadAuthCache
    \/ DoSaveAuthCache
    \/ DoLoadPushRules
    \/ DoSavePushRules
    \/ DoLoadKeymap
    \/ DoGetUserID
    \/ DoSaveFilterID
    \/ DoLoadFilterID
    \/ DoSaveNextBatch
    \/ DoLoadNextBatch
    \/ DoSaveRoom
    \/ DoLoadRoom

Spec == Init /\ [][Next]_vars

\* ------------------------------------------------- file trees that fail
\* A second set of initial file trees, for what the first set cannot
\* produce: the tree of an earlier session in which a path the aggregate
\* needs is taken by something of the wrong kind, or in which config.yaml
\* puts a directory of the layout onto the config directory.

\* path p of tree f is taken by an (empty) directory
BlockedByDir(f, p) == MkdirAll(RemoveAll(f, p), p).fs

\* path p of tree f is taken by a regular file
BlockedByFile(f, p) == Put(RemoveAll(f, p), p, [kind |-> "raw"])

\* the session tree after the user raised the room-cache tunables in
\* config.yaml
TunedSessionDisk(r) ==
    LET f == SessionDisk(r)
        p == Join(r.configDir, "config.yaml")
    IN [f EXCEPT !.files[p].kv.room_cache_size = 64,
                 !.files[p].kv.room_cache_age = 120]

\* the session tree after config.yaml was given the config directory as
\* media_dir
AliasedDisk(r) ==
    [TunedSessionDisk(r) EXCEPT
        !.files[Join(r.configDir, "config.yaml")].kv.media_dir = r.configDir]

FaultyDisks(r) ==
    LET c == NewConfig(r.configDir, r.dataDir, r.cacheDir, r.downloadDir)
        f == TunedSessionDisk(r)
    IN {f,
        AliasedDisk(r),
        BlockedByDir(f, SectionFile(c, "config")),
        BlockedByFile(f, c.CacheDir),
        Put(f, SectionFile(c, "PushRules"), Garbage),
        BlockedByDir(f, SectionFile(c, "Preferences")),
        BlockedByDir(Remove(f, Join(c.StateDir, RoomFile(1))), c.RoomListPath)}

InitFaulty ==
    /\ roots \in RootLayouts
    /\ config = NewConfig(roots.configDir, roots.dataDir, roots.cacheDir,
                          roots.downloadDir)
    /\ fs \in FaultyDisks(roots)
    /\ lastOp = "NewConfig"
    /\ result = [err |-> NoErr, ret |-> -1]
    /\ phase = "fresh"
    /\ authAtClear = NoAuth
    /\ dsRun = 0
    /\ calls = 0

\* the operations these trees are for: the two sequences, the main-settings
\* load and save, the lifecycle operations, and the writes of the
\* application that give the sequences something to save
NextFaulty ==
    \/ Restart
    \/ Login
    \/ SetPushRules
    \/ SetPreference
    \/ RoomsAdd
    \/ AppWrite
    \/ DoClear
    \/ DoClearData
    \/ DoCreateCacheDirs
    \/ DoDeleteSession
    \/ DoLoadAll
    \/ DoLoad
    \/ DoSaveAll
    \/ DoSave

SpecFaulty == InitFaulty /\ [][NextFaulty]_vars

\* --------------------------------------------------------------- properties

SectionSaveOps ==
    {"Save", "SaveAuthCache", "SavePreferences", "SavePushRules",
     "SaveFilterID", "SaveNextBatch"}

SectionLoadOps ==
    {"Load", "LoadAuthCache", "LoadPreferences", "LoadPushRules", "LoadKeymap"}

\* the section an operation loads or saves
SectionOf(op) ==
    CASE op \in {"Save", "Load"} -> "config"
      [] op \in {"SaveAuthCache", "SaveFilterID", "SaveNextBatch", "LoadAuthCache"}
            -> "AuthCache"
      [] op \in {"SavePreferences", "LoadPreferences"} -> "Preferences"
      [] op \in {"SavePushRules", "LoadPushRules"} -> "PushRules"
      [] op = "LoadKeymap" -> "KeyMap"

SectionFileName(section) ==
    CASE section = "config" -> "config.yaml"
      [] section = "Preferences" -> "preferences.yaml"
      [] section = "AuthCache" -> "auth-cache.yaml"
      [] section = "PushRules" -> "pushrules.json"

\* what a section's file holds after a save of the section as it is in c
Encoded(c, section) == Marshal(SectionFileName(section), c, section)

Fresh == NewConfig(roots.configDir, roots.dataDir, roots.cacheDir, roots.downloadDir)

PathFields ==
    {"Dir", "DataDir", "CacheDir", "DownloadDir", "StateDir", "MediaDir",
     "HistoryPath", "RoomListPath"}

PathsOf(c) == [f \in PathFields |-> c[f]]

\* C1: between a Clear() and the end of the next DeleteSession(), a save of
\* any one section (Save, SaveAuthCache, SavePreferences, SavePushRules, and
\* the save inside SaveFilterID and SaveNextBatch) returns normally and
\* leaves the whole file tree, directories and files, as it was.
C1_SuppressedSaveIsNoOp ==
    [][(phase = "cleared" /\ lastOp' \in SectionSaveOps)
          => (fs' = fs /\ result'.err = NoErr)]_vars

\* a section save ran after a Clear(), with config.yaml on disk holding
\* something else than the main settings in memory
C1_Witness ==
    /\ phase = "cleared"
    /\ lastOp \in SectionSaveOps
    /\ IsFile(fs, SectionFile(config, "config"))
    /\ fs.files[SectionFile(config, "config")] # Encoded(config, "config")

\* C2 as stated: when the auth-cache file exists, after Clear() and then
\* SaveAuthCache() the file still exists with the content it had before the
\* Clear().
C2_FileKeptAcrossClear ==
    [][(lastOp = "Clear" /\ lastOp' = "SaveAuthCache" /\ authAtClear # NoAuth)
          => (/\ IsFile(fs', AuthCachePath(config'))
              /\ fs'.files[AuthCachePath(config')] = authAtClear)]_vars

\* C2 amended: when the auth-cache file exists, Clear() removes it with the
\* cache directory, and a SaveAuthCache() right after the Clear() writes
\* nothing: the file tree stays as Clear() left it, the auth-cache file
\* absent.
C2_SaveAfterClearWritesNothing ==
    [][(lastOp = "Clear" /\ lastOp' = "SaveAuthCache" /\ authAtClear # NoAuth)
          => (fs' = fs /\ ~IsFile(fs', AuthCachePath(config')))]_vars

\* SaveAuthCache() ran after a Clear() that found an auth-cache file whose
\* content differs from the auth cache in memory
C2_Witness ==
    /\ lastOp = "SaveAuthCache"
    /\ phase = "cleared"
    /\ authAtClear.kind = "yaml"
    /\ authAtClear # Encoded(config, "AuthCache")

\* C3: a new aggregate has the suppression flag clear; Clear() leaves it set
\* and DeleteSession() leaves it clear; and the flag of an aggregate changes
\* in no other call: only Clear() takes it from clear to set, only
\* DeleteSession() from set to clear.
C3_FlagTransitions ==
    /\ [](lastOp = "NewConfig" => ~config.nosave)
    /\ [][/\ lastOp' = "Clear" => config'.nosave
          /\ lastOp' = "DeleteSession" => ~config'.nosave
          /\ (lastOp' # "NewConfig" /\ config'.nosave # config.nosave)
                => \/ lastOp' = "Clear" /\ config'.nosave
                   \/ lastOp' = "DeleteSession" /\ ~config'.nosave]_vars

\* a DeleteSession() has taken the flag back from set to clear
C3_Witness ==
    /\ lastOp = "DeleteSession"
    /\ phase = "reenabled"
    /\ ~config.nosave

\* C4 as stated: DeleteSession() leaves saving enabled, and from then on
\* (until a Clear()) a save of any section returns normally, its directory
\* exists and its file holds the encoding of the section in memory.
C4_EverySaveWritesAfterDeleteSession ==
    [][/\ lastOp' = "DeleteSession" => ~config'.nosave
       /\ (phase \in {"reset", "reenabled"} /\ lastOp' \in SectionSaveOps)
             => LET p == SectionFile(config', SectionOf(lastOp')) IN
                /\ result'.err = NoErr
                /\ IsDir(fs', Parent(p))
                /\ IsFile(fs', p)
                /\ fs'.files[p] = Encoded(config', SectionOf(lastOp'))]_vars

\* C4 amended: DeleteSession() leaves saving enabled, and from then on (until
\* a Clear()) a save of the main settings, the auth cache or the preferences,
\* and of the push rules when a ruleset is present, returns normally, its
\* directory exists and its file holds the encoding of the section in
\* memory; SavePushRules() with the ruleset absent, as DeleteSession() leaves
\* it, returns normally and changes nothing on disk.
C4_SavesWriteAfterDeleteSession ==
    [][/\ lastOp' = "DeleteSession" => ~config'.nosave
       /\ (phase \in {"reset", "reenabled"} /\ lastOp' \in SectionSaveOps)
             => LET p == SectionFile(config', SectionOf(lastOp')) IN
                IF lastOp' = "SavePushRules" /\ config'.PushRules = 0
                THEN result'.err = NoErr /\ fs' = fs
                ELSE /\ result'.err = NoErr
                     /\ IsDir(fs', Parent(p))
                     /\ IsFile(fs', p)
                     /\ fs'.files[p] = Encoded(config', SectionOf(lastOp'))]_vars

\* a section save wrote its file after a DeleteSession() that started with
\* saving suppressed
C4_Witness ==
    /\ phase = "reenabled"
    /\ lastOp \in SectionSaveOps \ {"SavePushRules"}
    /\ result.err = NoErr
    /\ IsFile(fs, SectionFile(config, SectionOf(lastOp)))
    /\ fs.files[SectionFile(config, SectionOf(lastOp))]
          = Encoded(config, SectionOf(lastOp))

\* C5 as stated: with the suppression flag set, SaveAll() changes nothing on
\* disk: no section file, no room list, no room state file.
C5_SuppressedSaveAllIsNoOp ==
    [][(config.nosave /\ lastOp' = "SaveAll") => fs' = fs]_vars

\* C6 as stated: after DeleteSession() the auth cache is all zero, access
\* token and device id are empty, the push ruleset is absent, the room cache
\* is a new empty one, and the data, cache, state and media directories
\* exist.
C6_DeleteSessionLeavesFreshState ==
    lastOp = "DeleteSession" =>
      /\ config.AuthCache = ZeroAuthCache
      /\ config.AccessToken = 0
      /\ config.DeviceID = 0
      /\ config.PushRules = 0
      /\ config.Rooms = NewRoomCache(config.RoomListPath, config.StateDir,
                                     config.RoomCacheSize, config.RoomCacheAge,
                                     "config.GetUserID")
      /\ ~config.nosave
      /\ \A d \in {config.DataDir, config.CacheDir, config.StateDir,
                   config.MediaDir} : IsDir(fs, d)

\* C7: from every reachable state, a second DeleteSession() right after a
\* first one leaves the aggregate (all sections, the flag) and the file tree
\* exactly as the first one left them.
C7_DeleteSessionIdempotent ==
    LET once == DeleteSession(W) IN DeleteSession(once) = once

\* two DeleteSession() calls in a row, on an aggregate with a user
C7_Witness ==
    /\ dsRun = 2
    /\ lastOp = "DeleteSession"
    /\ config.UserID # 0

\* C8 as stated: as long as the caller has used no lifecycle operation, the
\* paths are the ones NewConfig derived from the roots.
C8_PathsFixedAtConstruction ==
    phase = "fresh" => PathsOf(config) = PathsOf(Fresh)

\* the path fields a config.yaml with content data leaves alone: those its
\* document does not name, all of them when it does not parse
PathsNotNamed(data) ==
    IF data.kind # "yaml" THEN PathFields
    ELSE {f \in PathFields :
            ~\E t \in DOMAIN data.kv \cap DOMAIN ConfigTags : ConfigTags[t] = f}

\* C8 amended: the config directory never changes, and the other paths change
\* in no operation except the load of the main settings: Load()/LoadAll()
\* give every path that config.yaml names the file's value, which need not
\* lie under a root, leave every path it does not name as it was, and leave
\* all paths alone when config.yaml is absent.
C8_PathsChangeOnlyOnLoad ==
    [][/\ lastOp' # "NewConfig" => config'.Dir = config.Dir
       /\ lastOp' \notin {"Load", "LoadAll", "NewConfig"}
             => PathsOf(config') = PathsOf(config)
       /\ lastOp' \in {"Load", "LoadAll"}
             => LET p == SectionFile(config, "config") IN
                IF IsFile(fs, p)
                THEN \A f \in PathsNotNamed(fs.files[p]) : config'[f] = config[f]
                ELSE PathsOf(config') = PathsOf(config)]_vars

\* an operation other than the main-settings load ran on paths that a load
\* had moved away from the derived ones, out of the roots
C8_Witness ==
    /\ lastOp \notin {"Load", "LoadAll", "NewConfig"}
    /\ PathsOf(config) # PathsOf(Fresh)
    /\ \A r \in {roots.configDir, roots.dataDir, roots.cacheDir} :
          ~IsPrefix(r, config.CacheDir)

\* what a section holds in a newly constructed aggregate; for the main
\* settings, the tagged fields
ZeroOrDefault(c, section) ==
    IF section = "config" THEN yamlMarshal(c, ConfigTags)
    ELSE Deref(c, section)

\* C9 as stated: a load of a section whose file does not exist returns
\* normally and leaves the section at its zero/default value.
C9_MissingFileLeavesZero ==
    [][(lastOp' \in SectionLoadOps
        /\ ~IsFile(fs, SectionFile(config, SectionOf(lastOp'))))
          => /\ result'.err = NoErr
             /\ ZeroOrDefault(config', SectionOf(lastOp'))
                   = ZeroOrDefault(Fresh, SectionOf(lastOp'))]_vars

\* C9 amended: a load of a section whose file does not exist returns
\* normally and leaves the section, and the rest of the aggregate, exactly
\* as it was before the load, which is the zero/default value only if the
\* section had not been given another value before.
C9_MissingFileLeavesSection ==
    [][(lastOp' \in SectionLoadOps
        /\ ~IsFile(fs, SectionFile(config, SectionOf(lastOp'))))
          => (result'.err = NoErr /\ config' = config)]_vars

\* a load found no file and left a section that is not at its zero value
C9_Witness ==
    /\ lastOp = "LoadAuthCache"
    /\ result.err = NoErr
    /\ ~IsFile(fs, SectionFile(config, "AuthCache"))
    /\ config.AuthCache # ZeroAuthCache

FreshOn(f) == [c |-> Fresh, fs |-> f, err |-> NoErr]

\* the world a call has left
After == [c |-> config', fs |-> fs', err |-> result'.err]

\* the file at path p of tree f, or the mark of no file
FileAt(f, p) == IF IsFile(f, p) THEN f.files[p] ELSE [kind |-> "none"]

\* the getter that goes with the setter op
Getter(op, w) ==
    IF op = "SaveFilterID" THEN LoadFilterID(w) ELSE LoadNextBatch(w)

\* C11 as stated: with saving enabled, a call of SaveFilterID(_, f) or
\* SaveNextBatch(_, t) returns normally and, with v the value the getter
\* returns after it, writes the auth-cache file so that a new aggregate
\* built on the same roots that then loads the auth cache reads back v from
\* LoadFilterID/LoadNextBatch.
C11_NewAggregateReadsBack ==
    [][(lastOp' \in {"SaveFilterID", "SaveNextBatch"} /\ ~config.nosave)
          => \A v \in {Getter(lastOp', After)} :
             \A l \in {LoadAuthCache(FreshOn(fs'))} :
                /\ result'.err = NoErr
                /\ l.err = NoErr
                /\ Getter(lastOp', l) = v]_vars

\* C11 amended: with saving enabled, a call of SaveFilterID(_, f) or
\* SaveNextBatch(_, t) returns normally, changes the one field in memory
\* and, with v the value the getter returns after it, writes the whole auth
\* cache to auth-cache.yaml in the aggregate's current cache directory; a
\* new aggregate built on the same roots that then loads the auth cache
\* reads back the whole auth cache, v included, when the current cache
\* directory is still the one derived from the roots.
C11_SetterWritesAuthCache ==
    [][(lastOp' \in {"SaveFilterID", "SaveNextBatch"} /\ ~config.nosave)
          => \A v \in {Getter(lastOp', After)} :
                /\ result'.err = NoErr
                /\ config' = IF lastOp' = "SaveFilterID"
                             THEN [config EXCEPT !.AuthCache.FilterID = v]
                             ELSE [config EXCEPT !.AuthCache.NextBatch = v]
                /\ FileAt(fs', AuthCachePath(config))
                      = Encoded(config', "AuthCache")
                /\ config.CacheDir = Fresh.CacheDir
                      => \A l \in {LoadAuthCache(FreshOn(fs'))} :
                            /\ l.err = NoErr
                            /\ l.c.AuthCache = config'.AuthCache
                            /\ Getter(lastOp', l) = v]_vars

\* SaveFilterID set a filter identifier on an auth cache that held no sync
\* token, with saving enabled; the auth-cache file holds exactly that, and a
\* new aggregate on the same roots reads the filter identifier back
C11_Witness ==
    /\ lastOp = "SaveFilterID"
    /\ ~config.nosave
    /\ result.err = NoErr
    /\ config.AuthCache = [NextBatch |-> 0, FilterID |-> 1, InitialSyncDone |-> FALSE]
    /\ IsFile(fs, AuthCachePath(config))
    /\ fs.files[AuthCachePath(config)] = Encoded(config, "AuthCache")
    /\ LoadFilterID(LoadAuthCache(FreshOn(fs))) = 1

\* the value of a section of aggregate c; for the main settings, every field
\* that config.yaml carries
SectionValue(c, section) ==
    IF section = "config" THEN [f \in FieldsOf(ConfigTags) |-> c[f]]
    ELSE Deref(c, section)

\* the load of one section
LoadSection(section, w) ==
    CASE section = "config" -> Load(w)
      [] section = "AuthCache" -> LoadAuthCache(w)
      [] section = "PushRules" -> LoadPushRules(w)
      [] section = "Preferences" -> LoadPreferences(w)

\* the saves of one whole section as it is in memory
WholeSectionSaves == {"Save", "SaveAuthCache", "SavePushRules", "SavePreferences"}

\* C12 as stated: with saving enabled, saving any of the four sections and
\* then loading it into a fresh aggregate built on the same roots returns
\* normally and yields the value that was saved, the zero value and the
\* absent push ruleset included.
C12_SaveLoadRoundTrip ==
    [][(lastOp' \in WholeSectionSaves /\ ~config.nosave)
          => \A section \in {SectionOf(lastOp')} :
             \A l \in {LoadSection(section, FreshOn(fs'))} :
                /\ result'.err = NoErr
                /\ l.err = NoErr
                /\ SectionValue(l.c, section) = SectionValue(config, section)]_vars

\* C12 amended: with saving enabled, every save returns normally and leaves
\* the aggregate as it was; the main settings read back into a fresh
\* aggregate on the same roots equal the saved ones; the auth cache, the
\* preferences and a present push ruleset are written to the current cache
\* directory and read back equal when that directory is still the one
\* derived from the roots; an absent push ruleset is not written at all, so
\* the fresh aggregate reads it back as absent when no pushrules.json was
\* there before.
C12_RoundTripWhereSaved ==
    [][(lastOp' \in WholeSectionSaves /\ ~config.nosave)
          => \A section \in {SectionOf(lastOp')} :
             \A l \in {LoadSection(section, FreshOn(fs'))} :
                /\ result'.err = NoErr
                /\ config' = config
                /\ IF section = "PushRules" /\ config.PushRules = 0
                   THEN /\ fs' = fs
                        /\ ~IsFile(fs, SectionFile(Fresh, "PushRules"))
                              => (l.err = NoErr /\ l.c.PushRules = 0)
                   ELSE /\ FileAt(fs', SectionFile(config, section))
                              = Encoded(config, section)
                        /\ (section = "config" \/ config.CacheDir = Fresh.CacheDir)
                              => /\ l.err = NoErr
                                 /\ SectionValue(l.c, section)
                                       = SectionValue(config, section)]_vars

\* a push ruleset and preferences that differ from the zero value were saved
\* on a tree that had no such files, and a fresh aggregate reads them back
C12_Witness ==
    /\ lastOp \in {"SavePushRules", "SavePreferences"}
    /\ ~config.nosave
    /\ result.err = NoErr
    /\ ~IsFile(fs, SectionFile(config, "AuthCache"))
    /\ LET section == SectionOf(lastOp)
           l == LoadSection(section, FreshOn(fs))
       IN /\ SectionValue(config, section) # SectionValue(Fresh, section)
          /\ IsFile(fs, SectionFile(config, section))
          /\ SectionValue(l.c, section) = SectionValue(config, section)

\* C13: with the push ruleset absent, in every state of the suppression
\* flag, SavePushRules() returns normally and changes nothing (no directory
\* created, no file created or modified); the push-rules step of SaveAll()
\* changes nothing in the state the two steps before it left, and
\* pushrules.json is after the whole SaveAll() what it was before, present
\* or not.
C13_AbsentRulesetNeverWritten ==
    [][(lastOp' \in {"SavePushRules", "SaveAll"} /\ config.PushRules = 0)
          => /\ lastOp' = "SavePushRules"
                   => (result'.err = NoErr /\ fs' = fs /\ config' = config)
             /\ lastOp' = "SaveAll"
                   => /\ LET before == SaveAuthCache(Save(W))
                         IN SavePushRules(before) = before
                      /\ FileAt(fs', SectionFile(config, "PushRules"))
                            = FileAt(fs, SectionFile(config, "PushRules"))
                      /\ SectionFile(config, "PushRules") \notin fs'.dirs]_vars

\* a SaveAll() with saving enabled and the ruleset absent wrote the auth
\* cache beside a pushrules.json that holds an older ruleset, and left that
\* file as it was
C13_Witness ==
    /\ lastOp = "SaveAll"
    /\ ~config.nosave
    /\ config.PushRules = 0
    /\ FileAt(fs, SectionFile(config, "AuthCache")) = Encoded(config, "AuthCache")
    /\ FileAt(fs, SectionFile(config, "PushRules")) = jsonMarshal(1)

\* C14: every call of SaveRoom or LoadRoom, in every reachable state, fails
\* with UnsupportedOperation and leaves the aggregate, the suppression flag
\* included, and the file tree as they were.
C14_RoomAccessorsUnsupported ==
    [][lastOp' \in {"SaveRoom", "LoadRoom"}
          => /\ result'.err = "UnsupportedOperation"
             /\ config' = config
             /\ fs' = fs]_vars

\* LoadRoom was called on an aggregate with a user and saving suppressed,
\* and failed
C14_Witness ==
    /\ lastOp = "LoadRoom"
    /\ result.err = "UnsupportedOperation"
    /\ config.nosave
    /\ config.UserID # 0

\* C15: on a file tree without any file, LoadAll() on a newly constructed
\* aggregate returns normally, the load of the (absent) room list included,
\* and the main settings are the documented defaults: room-cache capacity
\* 32, max-age 60, notify-sound true, send-to-verified-only false, keymap
\* "default"; the identity fields are empty and the room cache is a new
\* empty one.
C15_LoadAllOnFreshDirsGivesDefaults ==
    [][(lastOp = "NewConfig" /\ DOMAIN fs.files = {} /\ lastOp' = "LoadAll")
          => /\ result'.err = NoErr
             /\ config'.RoomCacheSize = 32
             /\ config'.RoomCacheAge = 60
             /\ config'.NotifySound = TRUE
             /\ config'.SendToVerifiedOnly = FALSE
             /\ config'.Keymap = "default"
             /\ \A f \in {"UserID", "DeviceID", "AccessToken", "HS"} : config'[f] = 0
             /\ ~config'.Rooms.isNil
             /\ config'.Rooms.rooms = {}
             /\ DOMAIN fs'.files = {}]_vars

\* LoadAll() was the first call on a new aggregate, found no file, and
\* returned with the cache directories created and a room cache in place
C15_Witness ==
    /\ lastOp = "LoadAll"
    /\ calls = 1
    /\ result.err = NoErr
    /\ DOMAIN fs.files = {}
    /\ IsDir(fs, config.StateDir)
    /\ ~config.Rooms.isNil

\* the steps of SaveAll() and of LoadAll(), by the operation each one calls
SaveAllOrder ==
    <<"Save", "SaveAuthCache", "SavePushRules", "SavePreferences",
      "RoomsSaveList", "RoomsSaveLoadedRooms">>

LoadAllOrder ==
    <<"Load", "ReplaceRooms", "LoadAuthCache", "LoadPushRules",
      "LoadPreferences", "RoomsLoadList">>

\* the section a step writes or reads; "" for the steps on the room cache
StepSection(step) ==
    CASE step \in {"Save", "Load"} -> "config"
      [] step \in {"SaveAuthCache", "LoadAuthCache"} -> "AuthCache"
      [] step \in {"SavePushRules", "LoadPushRules"} -> "PushRules"
      [] step \in {"SavePreferences", "LoadPreferences"} -> "Preferences"
      [] OTHER -> ""

Step(step, w) ==
    CASE step = "Save" -> Save(w)
      [] step = "SaveAuthCache" -> SaveAuthCache(w)
      [] step = "SavePushRules" -> SavePushRules(w)
      [] step = "SavePreferences" -> SavePreferences(w)
      [] step = "RoomsSaveList" -> RoomsSaveList(w)
      [] step = "RoomsSaveLoadedRooms" -> RoomsSaveLoadedRooms(w)
      [] step = "Load" -> Load(w)
      [] step = "ReplaceRooms" -> ReplaceRooms(w)
      [] step = "LoadAuthCache" -> LoadAuthCache(w)
      [] step = "LoadPushRules" -> LoadPushRules(w)
      [] step = "LoadPreferences" -> LoadPreferences(w)
      [] step = "RoomsLoadList" -> RoomsLoadList(w)

\* the steps run one after the other from world w, up to and including the
\* first one that panics
RECURSIVE InOrder(_, _)
InOrder(w, steps) ==
    IF steps = <<>> \/ w.err # NoErr THEN w
    ELSE InOrder(Step(Head(steps), w), Tail(steps))

\* the first step of the sequence that panics from world w, 0 when none does
FailedStep(w, steps) ==
    LET failing == {i \in 1..Len(steps) : InOrder(w, SubSeq(steps, 1, i)).err # NoErr}
    IN IF failing = {} THEN 0
       ELSE CHOOSE i \in failing : \A j \in failing : i <= j

\* the state file the room cache of aggregate c keeps for room r
RoomStateFile(c, r) == Join(c.Rooms.stateDir, RoomFile(r))

\* C16: SaveAll() with saving enabled leaves what its steps leave when run
\* in the order main settings, auth cache, push rules, preferences, room
\* list, loaded rooms, each on what the one before left; the push-rules
\* step is left out when the ruleset is absent; when the save of the room
\* list fails, the loaded rooms are not persisted; and when every step
\* succeeds each section file holds the encoding of its section, the room
\* list file the list, and every loaded room has its state file.
C16_SaveAllOrder ==
    [][(lastOp' = "SaveAll" /\ ~config.nosave)
          => /\ After = InOrder(W, SaveAllOrder)
             /\ config.PushRules = 0
                   => After = InOrder(W, <<"Save", "SaveAuthCache", "SavePreferences",
                                           "RoomsSaveList", "RoomsSaveLoadedRooms">>)
             /\ result'.err # NoErr
                   => \A r \in RoomIDs :
                         FileAt(fs', RoomStateFile(config, r))
                            = FileAt(fs, RoomStateFile(config, r))
             /\ result'.err = NoErr
                   => /\ \A section \in {"config", "AuthCache", "Preferences"} :
                            FileAt(fs', SectionFile(config, section))
                               = Encoded(config, section)
                      /\ config.PushRules # 0
                            => FileAt(fs', SectionFile(config, "PushRules"))
                                  = Encoded(config, "PushRules")
                      /\ FileAt(fs', config.Rooms.listPath)
                            = RoomList(config.Rooms.rooms)
                      /\ \A r \in config.Rooms.rooms :
                            IsDir(fs, config.Rooms.stateDir)
                               => IsFile(fs', RoomStateFile(config, r))]_vars

\* SaveAll() wrote all four sections, then failed to save the room list, and
\* the state file of the loaded room was not written
C16_Witness ==
    /\ lastOp = "SaveAll"
    /\ ~config.nosave
    /\ result.err = "RoomListSaveFailed"
    /\ config.Rooms.rooms # {}
    /\ config.PushRules # 0
    /\ \A section \in {"config", "AuthCache", "PushRules", "Preferences"} :
          FileAt(fs, SectionFile(config, section)) = Encoded(config, section)
    /\ \A r \in config.Rooms.rooms : ~IsFile(fs, RoomStateFile(config, r))

\* C17: LoadAll() leaves what its steps leave when run in the order main
\* settings, new room cache, auth cache, push rules, preferences, room list,
\* each on what the one before left; the room cache is built from the room
\* list path, state directory, capacity and max-age as the main-settings
\* load left them, with the aggregate's GetUserID as callback, and is not
\* replaced when that load fails; the room list is loaded only when the
\* four section loads succeeded, and a failure to load it is reported.
C17_LoadAllOrder ==
    [][lastOp' = "LoadAll"
          => /\ After = InOrder(W, LoadAllOrder)
             /\ Load(W).err # NoErr => config'.Rooms = config.Rooms
             /\ Load(W).err = NoErr
                   => /\ [config'.Rooms EXCEPT !.rooms = {}]
                            = NewRoomCache(Load(W).c.RoomListPath, Load(W).c.StateDir,
                                           Load(W).c.RoomCacheSize,
                                           Load(W).c.RoomCacheAge, "config.GetUserID")
                      /\ PathsOf(config') = PathsOf(Load(W).c)
                      /\ config'.Rooms.rooms # {}
                            => result'.err = NoErr
                      /\ result'.err = NoErr
                            => FileAt(fs', config'.RoomListPath)
                                  \in {[kind |-> "none"], RoomList(config'.Rooms.rooms)}
                      /\ (FileAt(fs, Load(W).c.RoomListPath).kind \notin {"none", "gob"}
                          /\ InOrder(W, SubSeq(LoadAllOrder, 1, 5)).err = NoErr)
                            => result'.err = "RoomListLoadFailed"]_vars

\* LoadAll() returned normally with the tunables of config.yaml, a room
\* cache built from them, the auth cache of the file, and the room list
C17_Witness ==
    /\ lastOp = "LoadAll"
    /\ result.err = NoErr
    /\ config.RoomCacheSize = 64
    /\ config.Rooms.size = 64
    /\ config.Rooms.age = 120
    /\ config.Rooms.rooms # {}
    /\ config.AuthCache.FilterID # 0
    /\ config.PushRules # 0

\* C18: when SaveAll() or LoadAll() panics, the call leaves what its steps
\* up to and including the first failing one leave, nothing of a later step.
\* For SaveAll() with saving enabled, the file of every section saved before
\* the failing step holds the whole encoding of the section, and the file of
\* every section after it, the room list and the room state files are what
\* they were before the call.  For LoadAll(), the sections of the steps
\* after the failing one are what they were, the room cache is not replaced
\* when the main-settings load fails, and no room list is loaded.
C18_FailureEndsSequence ==
    [][(lastOp' \in {"SaveAll", "LoadAll"} /\ result'.err # NoErr)
          => LET order == IF lastOp' = "SaveAll" THEN SaveAllOrder ELSE LoadAllOrder
                 k == FailedStep(W, order)
             IN /\ k > 0
                /\ After = InOrder(W, SubSeq(order, 1, k))
                /\ lastOp' = "SaveAll"
                      => /\ config' = config
                         /\ \A j \in 1..4 :
                              LET section == StepSection(order[j])
                                  p == SectionFile(config, section)
                              IN /\ (/\ j < k
                                     /\ ~config.nosave
                                     /\ (section = "PushRules" => config.PushRules # 0))
                                       => FileAt(fs', p) = Encoded(config, section)
                                 /\ j > k => FileAt(fs', p) = FileAt(fs, p)
                         /\ k < 5 => FileAt(fs', config.Rooms.listPath)
                                        = FileAt(fs, config.Rooms.listPath)
                         /\ \A r \in RoomIDs :
                               FileAt(fs', RoomStateFile(config, r))
                                  = FileAt(fs, RoomStateFile(config, r))
                /\ lastOp' = "LoadAll"
                      => /\ \A j \in {3, 4, 5} :
                               j > k => SectionValue(config', StepSection(order[j]))
                                           = SectionValue(config, StepSection(order[j]))
                         /\ k = 1 => config'.Rooms = config.Rooms
                         /\ k > 1 => config'.Rooms.rooms = {}]_vars

\* SaveAll() on a new aggregate wrote the main settings and the (zero) auth
\* cache over those of the earlier session, failed to write the preferences,
\* and left the room list of the earlier session
C18_Witness ==
    /\ lastOp = "SaveAll"
    /\ result.err = "FileWriteFailed"
    /\ config.AuthCache = ZeroAuthCache
    /\ FileAt(fs, SectionFile(config, "config")) = Encoded(config, "config")
    /\ FileAt(fs, SectionFile(config, "AuthCache")) = Encoded(config, "AuthCache")
    /\ SectionFile(config, "Preferences") \in fs.dirs
    /\ FileAt(fs, config.RoomListPath) = RoomList({1})

\* every path of tree f
Paths(f) == f.dirs \cup DOMAIN f.files

\* path q is the same thing, with the same content, in trees f and g
SameAt(f, g, q) == (q \in f.dirs <=> q \in g.dirs) /\ FileAt(f, q) = FileAt(g, q)

\* path q lies in none of the target paths
Outside(q, targets) == ~\E p \in targets : IsPrefix(p, q)

\* the paths Clear() removes
ClearTargets(c) == {c.HistoryPath, c.RoomListPath, c.StateDir, c.MediaDir, c.CacheDir}

\* config.yaml, the keymaps directory and what it holds, in tree f
ConfigFiles(f, c) ==
    {q \in Paths(f) : \/ q = Join(c.Dir, "config.yaml")
                      \/ IsPrefix(Join(c.Dir, "keymaps"), q)}

\* the config directory lies in neither the data nor the cache directory,
\* as the roots gave them or as they are now
ConfigRootApart ==
    \A d \in {roots.dataDir, roots.cacheDir, config.DataDir, config.CacheDir} :
       ~IsPrefix(d, config.Dir)

\* what C19 says of the aggregate and of the removed paths: ClearData()
\* changes no field and removes the data directory and nothing else;
\* Clear() changes no field but the flag, which it sets, and leaves none of
\* history file, room list file, state, media and cache directory
ClearEffects ==
    /\ lastOp' = "ClearData"
          => /\ config' = config
             /\ Paths(fs') \subseteq Paths(fs)
             /\ \A q \in Paths(fs) :
                   IF IsPrefix(config.DataDir, q) THEN q \notin Paths(fs')
                   ELSE SameAt(fs, fs', q)
    /\ lastOp' = "Clear"
          => /\ config' = [config EXCEPT !.nosave = TRUE]
             /\ Paths(fs') \subseteq Paths(fs)
             /\ \A q \in Paths(fs') : Outside(q, ClearTargets(config))

\* C19 as stated: the effects above, and when the config directory is not
\* inside the data or cache directory, neither Clear() nor ClearData()
\* removes config.yaml or anything of the keymaps directory.
C19_ClearsKeepConfigFiles ==
    [][/\ ClearEffects
       /\ (lastOp' \in {"Clear", "ClearData"} /\ ConfigRootApart)
             => \A q \in ConfigFiles(fs, config) : SameAt(fs, fs', q)]_vars

\* C19 amended: the effects above, and Clear() leaves every path alone that
\* lies in none of history file, room list file, state, media and cache
\* directory as the aggregate holds them at the call; so config.yaml and
\* the keymaps directory stay when they lie in none of these (for
\* ClearData(): not in the data directory), which takes more than a config
\* root outside the data and cache roots, since a loaded config.yaml sets
\* each of these paths on its own.
C19_ClearsTouchOnlyTheirPaths ==
    [][/\ ClearEffects
       /\ lastOp' = "Clear"
             => \A q \in Paths(fs) :
                   Outside(q, ClearTargets(config)) => SameAt(fs, fs', q)
       /\ lastOp' \in {"Clear", "ClearData"}
             => LET targets == IF lastOp' = "Clear" THEN ClearTargets(config)
                               ELSE {config.DataDir}
                IN (\A q \in ConfigFiles(fs, config) : Outside(q, targets))
                      => \A q \in ConfigFiles(fs, config) : SameAt(fs, fs', q)]_vars

\* Clear() ran on a loaded session: the cache directory is gone, config.yaml,
\* the keymap and the crypto store in the data directory are still there,
\* and the auth cache in memory is the loaded one
C19_Witness ==
    /\ lastOp = "Clear"
    /\ config.nosave
    /\ config.AuthCache.FilterID # 0
    /\ ~IsDir(fs, config.CacheDir)
    /\ IsFile(fs, Join(config.Dir, "config.yaml"))
    /\ IsFile(fs, SectionFile(config, "KeyMap"))
    /\ IsFile(fs, Join(config.DataDir, "crypto.db"))

\* what C20 says of DeleteSession() apart from config.yaml: it creates and
\* modifies no file, and leaves saving enabled whatever the flag was before
NoSectionWrite ==
    lastOp' = "DeleteSession"
       => /\ ~config'.nosave
          /\ \A q \in DOMAIN fs'.files :
                q \in DOMAIN fs.files /\ fs'.files[q] = fs.files[q]

\* C20 as stated: DeleteSession() writes no file and leaves saving enabled,
\* and when the config directory is not inside the data or cache directory,
\* config.yaml is after DeleteSession() what it was before.
C20_DeleteSessionKeepsConfigYaml ==
    [][/\ NoSectionWrite
       /\ (lastOp' = "DeleteSession" /\ ConfigRootApart)
             => SameAt(fs, fs', Join(config.Dir, "config.yaml"))]_vars

\* C20 amended: DeleteSession() writes no file and leaves saving enabled,
\* and config.yaml is after DeleteSession() what it was before when it lies
\* in none of the paths DeleteSession() removes: the data directory and the
\* history file, room list file, state, media and cache directory as the
\* aggregate holds them at the call.
C20_DeleteSessionWritesNothing ==
    [][/\ NoSectionWrite
       /\ (/\ lastOp' = "DeleteSession"
           /\ Outside(Join(config.Dir, "config.yaml"),
                      ClearTargets(config) \cup {config.DataDir}))
             => SameAt(fs, fs', Join(config.Dir, "config.yaml"))]_vars

\* DeleteSession() ran on a loaded session: the access token and the device
\* id are empty in memory and are still in config.yaml
C20_Witness ==
    /\ lastOp = "DeleteSession"
    /\ config.UserID # 0
    /\ config.AccessToken = 0
    /\ config.DeviceID = 0
    /\ IsFile(fs, Join(config.Dir, "config.yaml"))
    /\ fs.files[Join(config.Dir, "config.yaml")].kv.access_token # 0
    /\ fs.files[Join(config.Dir, "config.yaml")].kv.device_id # 0

====
